---------------------------- MODULE Spec2Model ----------------------------
(***************************************************************************)
(* Case-reference extraction, ordering and grouping of the decision        *)
(* counter: data_processing.py (identifier parser), main.py / ForMom.py    *)
(* (count table, date sort, merge-block loop) and decision_counter.py      *)
(* (year/cluster ordering, grouping pass).                                 *)
(*                                                                         *)
(* Strings are sequences of one-character strings, so that slicing,        *)
(* splitting, lexicographic comparison and the regular expressions are     *)
(* computed character by character.  A date is <<year, month, day>>; a     *)
(* missing date is NaT and a missing string (None, NaN) is None.           *)
(***************************************************************************)
EXTENDS Integers, Sequences, FiniteSets, TLC

VARIABLES
    script,                \* which entry point runs ("engine": the parser's
                           \* strings passed through the ordering and grouping)
    pc,                    \* position of the running script
    title,                 \* argument of extract_decisions_and_cases
    all_cases,             \* its return value
    rows,                  \* the input table (sequence of rows)
    df,                    \* the working data frame (sequence of rows)
    decision_case_counts,  \* main.py: (cases_string, date) -> count
    row_idx,               \* main.py: merge loop, current sheet row
    counter,               \* main.py: merge loop, block number
    blocks,                \* main.py: blocks written so far
    columns,               \* decision_counter.py: column names of the input table
    workbook,              \* the output workbook: sheet name -> rows written
    df_archive,            \* decision_counter.py: the 'Web archives' rows
    df_bull,               \* decision_counter.py: the 'Bull' rows
    subsets,               \* main.py: <<subset_1, subset_2, subset_3>>
    raised,                \* the exception that ended the run, or "none"
    charts,                \* main.py: sheet name -> year_counts of the sheet
    ui                     \* ask_names_of_files_ui: its locals and the event queue

vars == <<script, pc, title, all_cases, rows, df, decision_case_counts, row_idx, counter, blocks,
          columns, workbook, df_archive, df_bull, subsets, raised, charts, ui>>

\* the variables of the partition and output steps
outVars == <<columns, workbook, df_archive, df_bull, subsets, raised, charts, ui>>

\* pd.NaT: no date
NaT == <<>>
\* None, and the NaN an empty cell is read back as: no string
None == <<"None">>

----------------------------------------------------------------------------
(* Characters and strings                                                  *)

Digits == {"0", "1", "2", "3", "4", "5", "6", "7", "8", "9"}

Uppers == {"A", "B", "C", "D", "E", "F", "G", "H", "I", "J", "K", "L", "M",
           "N", "O", "P", "Q", "R", "S", "T", "U", "V", "W", "X", "Y", "Z"}

Lowers == {"a", "b", "c", "d", "e", "f", "g", "h", "i", "j", "k", "l", "m",
           "n", "o", "p", "q", "r", "s", "t", "u", "v", "w", "x", "y", "z"}

Spaces == {" ", "\t"}

IsDigit(c) == c \in Digits
IsSpace(c) == c \in Spaces
IsWord(c) == c \in Digits \cup Uppers \cup Lowers \cup {"_"}

\* The characters in code point order (the ones the model's strings use).
CodePoints == <<"\t", " ", "&", "(", ")", "+", "-",
                "0", "1", "2", "3", "4", "5", "6", "7", "8", "9",
                "A", "B", "C", "D", "E", "F", "G", "H", "I", "J", "K", "L", "M",
                "N", "O", "P", "Q", "R", "S", "T", "U", "V", "W", "X", "Y", "Z", "_",
                "a", "b", "c", "d", "e", "f", "g", "h", "i", "j", "k", "l", "m",
                "n", "o", "p", "q", "r", "s", "t", "u", "v", "w", "x", "y", "z">>

OrdTable == [c \in {CodePoints[k] : k \in 1..Len(CodePoints)} |->
                CHOOSE k \in 1..Len(CodePoints) : CodePoints[k] = c]

Ord(c) == OrdTable[c]

Min(a, b) == IF a <= b THEN a ELSE b

\* s[k], or "" past either end
CharAt(s, k) == IF k >= 1 /\ k <= Len(s) THEN s[k] ELSE ""

\* Python's s < t on str: by code point, a proper prefix is smaller
RECURSIVE StrLess(_, _)
StrLess(s, t) ==
    IF t = <<>> THEN FALSE
    ELSE IF s = <<>> THEN TRUE
    ELSE IF s[1] # t[1] THEN Ord(s[1]) < Ord(t[1])
    ELSE StrLess(Tail(s), Tail(t))

\* Python's s[-k:]
LastChars(s, k) == IF Len(s) <= k THEN s ELSE SubSeq(s, Len(s) - k + 1, Len(s))

\* Python's sep.join(ss)
RECURSIVE Join(_, _)
Join(sep, ss) ==
    IF ss = <<>> THEN <<>>
    ELSE IF Len(ss) = 1 THEN ss[1]
    ELSE ss[1] \o sep \o Join(sep, Tail(ss))

\* number of consecutive characters of class cls from position i on
RECURSIVE RunLen(_, _, _)
RunLen(s, i, cls) ==
    IF i <= Len(s) /\ s[i] \in cls THEN 1 + RunLen(s, i + 1, cls) ELSE 0

\* Python's s.split(sep) for a non-empty separator
RECURSIVE SplitOn(_, _, _)
SplitOn(s, sep, cur) ==
    IF s = <<>> THEN <<cur>>
    ELSE IF Len(s) >= Len(sep) /\ SubSeq(s, 1, Len(sep)) = sep
         THEN <<cur>> \o SplitOn(SubSeq(s, Len(sep) + 1, Len(s)), sep, <<>>)
         ELSE SplitOn(Tail(s), sep, Append(cur, s[1]))

\* Python's s.split(): the maximal runs of non-whitespace
RECURSIVE SplitWs(_, _)
SplitWs(s, cur) ==
    IF s = <<>> THEN (IF cur = <<>> THEN <<>> ELSE <<cur>>)
    ELSE IF IsSpace(s[1])
         THEN (IF cur = <<>> THEN <<>> ELSE <<cur>>) \o SplitWs(Tail(s), <<>>)
         ELSE SplitWs(Tail(s), Append(cur, s[1]))

----------------------------------------------------------------------------
(* data_processing.py: extract_decisions_and_cases                         *)

CAS == <<"C", "A", "S">>
TAS == <<"T", "A", "S">>

\* (?:\s?\+\s?\d{1,9})* after a match that ends at p: the end of the match
RECURSIVE PlusTail(_, _)
PlusTail(s, p) ==
    LET q == IF IsSpace(CharAt(s, p + 1)) /\ CharAt(s, p + 2) = "+" THEN p + 2
             ELSE IF CharAt(s, p + 1) = "+" THEN p + 1
             ELSE 0
        r == IF q = 0 THEN 0
             ELSE IF IsSpace(CharAt(s, q + 1)) /\ IsDigit(CharAt(s, q + 2)) THEN q + 2
             ELSE IF IsDigit(CharAt(s, q + 1)) THEN q + 1
             ELSE 0
    IN  IF r = 0 THEN p
        ELSE PlusTail(s, r + Min(RunLen(s, r, Digits), 9) - 1)

\* \b(CAS|TAS)\s(\d{4}\s[A-Z]{1,3}\s\d{1,9}(?:\s?\+\s?\d{1,9})*) tried at
\* position i: the position of the match's last character, 0 if none
DecisionMatchEnd(s, i) ==
    LET L  == RunLen(s, i + 9, Uppers)
        nb == i + 10 + L
        D  == Min(RunLen(s, nb, Digits), 9)
    IN  IF /\ (i = 1 \/ ~IsWord(s[i - 1]))
           /\ i + 2 <= Len(s)
           /\ SubSeq(s, i, i + 2) \in {CAS, TAS}
           /\ IsSpace(CharAt(s, i + 3))
           /\ \A k \in (i + 4)..(i + 7) : IsDigit(CharAt(s, k))
           /\ IsSpace(CharAt(s, i + 8))
           /\ L \in 1..3
           /\ IsSpace(CharAt(s, i + 9 + L))
           /\ D >= 1
        THEN PlusTail(s, nb + D - 1)
        ELSE 0

\* re.findall of the pattern: the (group 1, group 2) pairs, left to right
RECURSIVE DecisionFindall(_, _)
DecisionFindall(s, i) ==
    IF i > Len(s) THEN <<>>
    ELSE LET e == DecisionMatchEnd(s, i)
         IN  IF e = 0 THEN DecisionFindall(s, i + 1)
             ELSE <<<<SubSeq(s, i, i + 2), SubSeq(s, i + 4, e)>>>>
                  \o DecisionFindall(s, e + 1)

\* re.sub(r'\s?\+\s?', ' + ', s), from position i on
RECURSIVE NormalizePlus(_, _)
NormalizePlus(s, i) ==
    IF i > Len(s) THEN <<>>
    ELSE IF IsSpace(s[i]) /\ CharAt(s, i + 1) = "+"
         THEN <<" ", "+", " ">>
              \o NormalizePlus(s, IF IsSpace(CharAt(s, i + 2)) THEN i + 3 ELSE i + 2)
    ELSE IF s[i] = "+"
         THEN <<" ", "+", " ">>
              \o NormalizePlus(s, IF IsSpace(CharAt(s, i + 1)) THEN i + 2 ELSE i + 1)
    ELSE <<s[i]>> \o NormalizePlus(s, i + 1)

\* the case_sequence of one match
CaseSequence(body) == SplitOn(NormalizePlus(body, 1), <<" ", "+", " ">>, <<>>)

FormatCase_NoSpace(prefix, year, letters, number) ==
    prefix \o <<" ">> \o year \o <<" ">> \o letters \o number

\* f"{prefix} {year} {letters} {number}"
FormatCase(prefix, year, letters, number) ==
    prefix \o <<" ">> \o year \o <<" ">> \o letters \o <<" ">> \o number

\* One pass of `for case in case_sequence`.  st holds the function's locals:
\* year, letters, number (empty before their first assignment; the pattern
\* makes the first fragment of every match a full triple), previous_year,
\* previous_letters, and the list built so far.
CaseStep_NoCarry(st, prefix, case) ==
    LET part == SplitWs(case, <<>>)
        st1  == IF Len(part) = 3
                THEN [st EXCEPT !.year = part[1], !.letters = part[2], !.number = part[3]]
                ELSE IF Len(part) = 1
                THEN [st EXCEPT !.year = st.previous_year, !.letters = st.previous_letters,
                                !.number = part[1]]
                ELSE st
    IN  [st1 EXCEPT !.out = Append(st1.out,
                        FormatCase(prefix, st1.year, st1.letters, st1.number))]

CaseStep(st, prefix, case) ==
    LET part == SplitWs(case, <<>>)
        st1  == IF Len(part) = 3
                THEN [st EXCEPT !.year = part[1], !.letters = part[2], !.number = part[3],
                                !.previous_year = part[1], !.previous_letters = part[2]]
                ELSE IF Len(part) = 1
                THEN [st EXCEPT !.year = st.previous_year, !.letters = st.previous_letters,
                                !.number = part[1]]
                ELSE st
    IN  [st1 EXCEPT !.out = Append(st1.out,
                        FormatCase(prefix, st1.year, st1.letters, st1.number))]

RECURSIVE CaseLoop(_, _, _)
CaseLoop(st, prefix, cases) ==
    IF cases = <<>> THEN st
    ELSE CaseLoop(CaseStep(st, prefix, Head(cases)), prefix, Tail(cases))

\* One pass of `for parts in decisions`: previous_year = 0000 formats as "0"
DecisionStep(st, parts) ==
    CaseLoop([st EXCEPT !.previous_year = <<"0">>, !.previous_letters = <<"X">>],
             parts[1], CaseSequence(parts[2]))

RECURSIVE DecisionLoop(_, _)
DecisionLoop(st, decisions) ==
    IF decisions = <<>> THEN st
    ELSE DecisionLoop(DecisionStep(st, Head(decisions)), Tail(decisions))

extract_decisions_and_cases(t) ==
    DecisionLoop([year |-> <<>>, letters |-> <<>>, number |-> <<>>,
                  previous_year |-> <<>>, previous_letters |-> <<>>, out |-> <<>>],
                 DecisionFindall(t, 1)).out


----------------------------------------------------------------------------
(* Bounds                                                                  *)

\* most '+'-joined numbers in one generated reference
MaxNums == 2
\* most rows in a generated table
MaxRows == 3

SeqsUpTo(S, n) == UNION {[1..k -> S] : k \in 1..n}

----------------------------------------------------------------------------
(* The parser on its own: a title is drawn, the parser is applied          *)

Str2020 == <<"2", "0", "2", "0">>
StrABC == <<"A", "B", "C">>
Str123 == <<"1", "2", "3">>
Str456 == <<"4", "5", "6">>

LeadTexts == {<<>>, <<"x">>, <<"-", " ">>}
PrefixTexts == {CAS, TAS}
YearTexts == {Str2020, <<"2", "0", "2">>, <<>>}
SeriesTexts == {StrABC, <<"A", "B", "C", "D">>, <<>>}
NumberTexts == {Str123, Str456, <<"1", "2", "3", "4", "5", "6", "7", "8", "9", "0">>}
PlusTexts == {<<"+">>, <<" ", "+", " ">>, <<"\t", "+">>}
TrailTexts == {<<>>,
               <<" ", "d", "e", "c", "i", "s", "i", "o", "n">>,
               <<" ", "&", " ">> \o TAS \o <<" ", "2", "0", "1", "9", " ", "A", " ", "7", "+", "8">>,
               <<" ">> \o CAS \o <<" ", "7", "7">>}

\* a field and the separator after it; an absent field takes no separator
Field(x, ws) == IF x = <<>> THEN <<>> ELSE Append(x, ws)

ParseTitles ==
    { lead \o p \o <<ws>> \o Field(y, ws) \o Field(l, ws) \o Join(plus, nums) \o trail :
        lead \in LeadTexts, p \in PrefixTexts, ws \in Spaces, y \in YearTexts,
        l \in SeriesTexts, plus \in PlusTexts, nums \in SeqsUpTo(NumberTexts, MaxNums),
        trail \in TrailTexts }

InitParse ==
    /\ script = "data_processing"
    /\ pc = "parse"
    /\ title \in ParseTitles
    /\ all_cases = <<>>
    /\ rows = <<>>
    /\ df = <<>>
    /\ decision_case_counts = <<>>
    /\ row_idx = 0
    /\ counter = 0
    /\ blocks = <<>>
    /\ columns = <<>>
    /\ workbook = <<>>
    /\ df_archive = <<>>
    /\ df_bull = <<>>
    /\ subsets = <<>>
    /\ raised = "none"
    /\ charts = <<>>
    /\ ui = <<>>

\* the call extract_decisions_and_cases(title)
Parse ==
    /\ pc = "parse"
    /\ all_cases' = extract_decisions_and_cases(title)
    /\ pc' = "parsed"
    /\ UNCHANGED <<script, title, rows, df, decision_case_counts, row_idx, counter, blocks>>
    /\ UNCHANGED outVars

NextParse == Parse

SpecParse == InitParse /\ [][NextParse]_vars

----------------------------------------------------------------------------
(* Claims about the parser                                                 *)

\* the maximal digit runs of s from position i on
RECURSIVE DigitRuns(_, _)
DigitRuns(s, i) ==
    IF i > Len(s) THEN <<>>
    ELSE IF IsDigit(s[i])
         THEN LET d == RunLen(s, i, Digits)
              IN  <<SubSeq(s, i, i + d - 1)>> \o DigitRuns(s, i + d)
         ELSE DigitRuns(s, i + 1)

\* What one match stands for, read off its text by position: the year is its
\* first four characters, the series the letters after them, and every digit
\* run after the series is a number of that same year and series.
MatchCases(m) ==
    LET L    == RunLen(m[2], 6, Uppers)
        nums == DigitRuns(m[2], 7 + L)
    IN  [k \in 1..Len(nums) |->
            FormatCase(m[1], SubSeq(m[2], 1, 4), SubSeq(m[2], 6, 5 + L), nums[k])]

RECURSIVE MatchesCases(_)
MatchesCases(ms) == IF ms = <<>> THEN <<>> ELSE MatchCases(Head(ms)) \o MatchesCases(Tail(ms))

CarryOverTitle == CAS \o <<" ">> \o Str2020 \o <<" ">> \o StrABC \o <<" ">> \o Str123
                  \o <<" ", "+", " ">> \o Str456
CarryOverCases == <<FormatCase(CAS, Str2020, StrABC, Str123),
                    FormatCase(CAS, Str2020, StrABC, Str456)>>

\* C8: for every title the parser returns, match by match from left to right,
\* one identifier for the leading full triple and one per '+'-joined bare
\* number, in order, each carrying the prefix, year and series of its own
\* match; "CAS 2020 ABC 123 + 456" gives [CAS 2020 ABC 123, CAS 2020 ABC 456].
C8_CarryOver ==
    pc = "parsed" =>
        /\ all_cases = MatchesCases(DecisionFindall(title, 1))
        /\ title = CarryOverTitle => all_cases = CarryOverCases

\* a title with two matches, each with a bare number: the second bare number
\* takes the year and series of the second match
C8_Witness ==
    /\ pc = "parsed"
    /\ Len(DecisionFindall(title, 1)) = 2
    /\ Len(all_cases) = 4
    /\ all_cases[2] = FormatCase(CAS, Str2020, StrABC, Str456)
    /\ all_cases[4] = FormatCase(TAS, <<"2", "0", "1", "9">>, <<"A">>, <<"8">>)

BareNumberTitle == CAS \o <<" ">> \o Str123

\* C9: for the title "CAS 123" the parser returns one sentinel-marked
\* identifier (year sentinel 0000, which the code would format as 0, series
\* sentinel X, number 123) and does not drop the reference.
C9_BareNumberSentinel ==
    (pc = "parsed" /\ title = BareNumberTitle) =>
        all_cases \in {<<FormatCase(CAS, <<"0", "0", "0", "0">>, <<"X">>, Str123)>>,
                       <<FormatCase(CAS, <<"0">>, <<"X">>, Str123)>>}

\* C20: for every title that matches the case-reference pattern, parsing the
\* canonical string of its identifiers (the identifiers joined with " & ")
\* returns the same identifier sequence as parsing the title.
C20_CanonicalReparse ==
    (pc = "parsed" /\ all_cases # <<>>) =>
        extract_decisions_and_cases(Join(<<" ", "&", " ">>, all_cases)) = all_cases

\* a title with carried-over numbers, whose canonical string is another
\* string than the title
C20_Witness ==
    /\ pc = "parsed"
    /\ Len(all_cases) = 4
    /\ Join(<<" ", "&", " ">>, all_cases) # title
    /\ Len(DecisionFindall(Join(<<" ", "&", " ">>, all_cases), 1)) = 4

----------------------------------------------------------------------------
(* pandas: sort_values                                                     *)

\* the orders of n rows, for every table length of the model
PermTable == [n \in 0..MaxRows |->
                {f \in [1..n -> 1..n] : \A i, j \in 1..n : f[i] = f[j] => i = j}]

Perms(n) == PermTable[n]

Reorder_Dedup(s, perm) ==
    LET r == [k \in 1..Len(s) |-> s[perm[k]]]
        cells(k) == [f \in DOMAIN r[k] \ {"label"} |-> r[k][f]]
        kept == {k \in 1..Len(s) : \A j \in 1..(k - 1) : cells(j) # cells(k)}
    IN  [i \in 1..Cardinality(kept) |->
            r[CHOOSE k \in kept : Cardinality({j \in kept : j < k}) = i - 1]]

\* the frame with row perm[k] at position k; every row keeps its label
Reorder(s, perm) == [k \in 1..Len(s) |-> s[perm[k]]]

DateLess(a, b) ==
    \/ a[1] < b[1]
    \/ a[1] = b[1] /\ a[2] < b[2]
    \/ a[1] = b[1] /\ a[2] = b[2] /\ a[3] < b[3]

DateBefore_NaTFirst(a, b, ascending) ==
    /\ b # NaT
    /\ \/ a = NaT
       \/ IF ascending THEN DateLess(a, b) ELSE DateLess(b, a)

\* a sorts strictly before b in a date column; NaT sorts last in both directions
DateBefore(a, b, ascending) ==
    /\ a # NaT
    /\ \/ b = NaT
       \/ IF ascending THEN DateLess(a, b) ELSE DateLess(b, a)

\* sort_values(by=<one date column>): the orders the default, unstable
\* 'quicksort' may return.  The dated rows come in key order, rows with equal
\* dates in any order, and the rows without a date after them in their
\* original order.
SortValuesOrders(dates, ascending) ==
    {perm \in Perms(Len(dates)) :
        \A i, j \in 1..Len(dates) : i < j =>
            /\ ~DateBefore(dates[perm[j]], dates[perm[i]], ascending)
            /\ (dates[perm[i]] = NaT /\ dates[perm[j]] = NaT) => perm[i] < perm[j]}

----------------------------------------------------------------------------
(* decision_counter.py                                                     *)

\* df['Year'], compared as sort_values compares it: NaN last
YearLess(d1, d2) == d1 # NaT /\ (d2 = NaT \/ d1[1] < d2[1])
YearSame(d1, d2) == IF d1 = NaT \/ d2 = NaT THEN d1 = d2 ELSE d1[1] = d2[1]

\* df['Short Case Number']: str(x)[-6:] if pd.notna(x) else None
ShortCaseNumber(x) == IF x # None THEN LastChars(x, 6) ELSE None

ShortLess(k1, k2) == k1 # None /\ (k2 = None \/ StrLess(k1, k2))

\* row a sorts strictly before row b by ['Year', 'Short Case Number']
YearShortLess(a, b) ==
    \/ YearLess(a.Extracted_dates, b.Extracted_dates)
    \/ /\ YearSame(a.Extracted_dates, b.Extracted_dates)
       /\ ShortLess(ShortCaseNumber(a.Case_Number), ShortCaseNumber(b.Case_Number))

\* sort_values(by=['Year', 'Short Case Number']) is a stable lexsort: row i
\* comes after the rows that sort before it and the rows that tie with it
\* and precede it in the input
LexsortOrder(d) ==
    LET before(i) == {j \in 1..Len(d) : \/ YearShortLess(d[j], d[i])
                                         \/ (~YearShortLess(d[i], d[j]) /\ j < i)}
    IN  [k \in 1..Len(d) |-> CHOOSE i \in 1..Len(d) : Cardinality(before(i)) = k - 1]

YearOnlyLess(a, b) == YearLess(a.Extracted_dates, b.Extracted_dates)

proper_ordering_by_year_only(d) ==
    Reorder(d, CHOOSE perm \in Perms(Len(d)) :
                  \A i, j \in 1..Len(d) : i < j =>
                      /\ ~YearOnlyLess(d[perm[j]], d[perm[i]])
                      /\ YearOnlyLess(d[perm[i]], d[perm[j]]) \/ perm[i] < perm[j])

proper_ordering_cases_by_case_number(d) == Reorder(d, LexsortOrder(d))

\* last_six of the grouping pass
LastSix(case_number) ==
    IF case_number # None /\ Len(case_number) >= 6 THEN LastChars(case_number, 6) ELSE None

\* df.at[i, 'Case Number']: the row whose label is i
CaseNumberAt(d, i) == d[CHOOSE p \in 1..Len(d) : d[p].label = i].Case_Number

\* the loop `for i in range(len(df))`, from i on: the list decision_counter
RECURSIVE GroupLoop_NoUpdate(_, _, _, _, _)
GroupLoop_NoUpdate(d, i, current_case, cnt, decision_counter) ==
    IF i >= Len(d) THEN decision_counter
    ELSE LET last_six == LastSix(CaseNumberAt(d, i))
             cnt1 == IF last_six # current_case THEN cnt + 1 ELSE cnt
         IN  GroupLoop_NoUpdate(d, i + 1, current_case, cnt1, Append(decision_counter, cnt1))

RECURSIVE GroupLoop(_, _, _, _, _)
GroupLoop(d, i, current_case, cnt, decision_counter) ==
    IF i >= Len(d) THEN decision_counter
    ELSE LET last_six == LastSix(CaseNumberAt(d, i))
             changed == last_six # current_case
             cnt1 == IF changed THEN cnt + 1 ELSE cnt
         IN  GroupLoop(d, i + 1, IF changed THEN last_six ELSE current_case, cnt1,
                       Append(decision_counter, cnt1))

\* df.insert(0, 'Decision Counter', decision_counter): by position
group_identical_decisions(d) ==
    LET decision_counter == GroupLoop(d, 0, None, 0, <<>>)
    IN  [p \in 1..Len(d) |-> d[p] @@ [Decision_Counter |-> decision_counter[p]]]

Date1 == <<2019, 1, 10>>
Date2 == <<2019, 1, 11>>
Date3 == <<2020, 5, 5>>

CaseA2019 == <<"C", "A", "S", " ", "2", "0", "1", "9", " ", "A", " ", "1", "2", "3", "4">>
CaseA2020 == <<"T", "A", "S", " ", "2", "0", "2", "0", " ", "A", " ", "1", "2", "3", "4">>
CaseB == <<"C", "A", "S", " ", "2", "0", "1", "9", " ", "B", " ", "5", "6", "7", "8">>
CaseShort == <<"A", " ", "1">>

ExtractedDates == {Date1, Date3, NaT}
CaseNumbers == {CaseA2019, CaseA2020, CaseB, CaseShort, None}

\* a frame as read_excel or DataFrame(...) builds it: labels 0..n-1 in row order
Frame(cells) == [k \in 1..Len(cells) |-> [label |-> k - 1] @@ cells[k]]

\* main() after extract_and_write_case_number returned: it raises when no row
\* has a case number
InitDC ==
    /\ script = "decision_counter"
    /\ pc = "order_data_frame"
    /\ rows \in {Frame(c) : c \in SeqsUpTo([Extracted_dates : ExtractedDates,
                                            Case_Number : CaseNumbers], MaxRows)}
    /\ \E k \in 1..Len(rows) : rows[k].Case_Number # None
    /\ df = rows
    /\ title = <<>>
    /\ all_cases = <<>>
    /\ decision_case_counts = <<>>
    /\ row_idx = 0
    /\ counter = 0
    /\ blocks = <<>>
    /\ columns = <<>>
    /\ workbook = <<>>
    /\ df_archive = <<>>
    /\ df_bull = <<>>
    /\ subsets = <<>>
    /\ raised = "none"
    /\ charts = <<>>
    /\ ui = <<>>

\* df = order_data_frame(df)
OrderDataFrame ==
    /\ pc = "order_data_frame"
    /\ \E perm \in SortValuesOrders([k \in 1..Len(df) |-> df[k].Extracted_dates], TRUE) :
          df' = Reorder(df, perm)
    /\ pc' = "proper_ordering"
    /\ UNCHANGED <<script, title, all_cases, rows, decision_case_counts, row_idx, counter, blocks>>
    /\ UNCHANGED outVars

\* df = proper_ordering_cases_by_case_number(df)
ProperOrdering ==
    /\ pc = "proper_ordering"
    /\ df' = proper_ordering_cases_by_case_number(df)
    /\ pc' = IF script = "decision_counter" THEN "to_excel" ELSE "group"
    /\ UNCHANGED <<script, title, all_cases, rows, decision_case_counts, row_idx, counter, blocks>>
    /\ UNCHANGED outVars

\* df_to_excel_sheet(df, ..., 'MainData') without the index, then
\* df = excel_sheet_to_data_frame(output_file): the rows get the labels 0..n-1
ExcelRoundTrip ==
    /\ pc = "to_excel"
    /\ df' = [p \in 1..Len(df) |-> [df[p] EXCEPT !.label = p - 1]]
    /\ pc' = "group"
    /\ UNCHANGED <<script, title, all_cases, rows, decision_case_counts, row_idx, counter, blocks>>
    /\ UNCHANGED outVars

\* df = group_identical_decisions(df)
GroupIdenticalDecisions ==
    /\ pc = "group"
    /\ df' = group_identical_decisions(df)
    /\ pc' = "done"
    /\ UNCHANGED <<script, title, all_cases, rows, decision_case_counts, row_idx, counter, blocks>>
    /\ UNCHANGED outVars

NextDC ==
    \/ OrderDataFrame
    \/ ProperOrdering
    \/ ExcelRoundTrip
    \/ GroupIdenticalDecisions

SpecDC == InitDC /\ [][NextDC]_vars

----------------------------------------------------------------------------
(* Claims about the grouping pass and the by-case-cluster ordering         *)

Grouped == script = "decision_counter" /\ pc = "done"
Ordered == script = "decision_counter" /\ pc \in {"to_excel", "group", "done"}

\* the positions at which the grouping pass sees the cluster key change
KeyChanges(d) ==
    {p \in 1..(Len(d) - 1) : LastSix(d[p].Case_Number) # LastSix(d[p + 1].Case_Number)}

\* C1: in the output of the grouping pass, the second of two adjacent records
\* has the first's groupIndex when their cluster keys (as the pass takes them:
\* the last six characters, none for a missing or shorter case number) are
\* equal and the first's plus 1 when they differ; so groupIndex never
\* decreases and has as many distinct values as there are maximal runs of
\* equal cluster key.
C1_AdjacentGroupIndex ==
    Grouped =>
        /\ \A p \in 1..(Len(df) - 1) :
              df[p + 1].Decision_Counter =
                  IF p \in KeyChanges(df) THEN df[p].Decision_Counter + 1
                                          ELSE df[p].Decision_Counter
        /\ \A p, q \in 1..Len(df) : p <= q => df[p].Decision_Counter <= df[q].Decision_Counter
        /\ Cardinality({df[p].Decision_Counter : p \in 1..Len(df)})
               = Cardinality(KeyChanges(df)) + 1

\* two different case numbers of one cluster share a group, the next cluster
\* opens the next group
C1_Witness ==
    /\ Grouped
    /\ Len(df) = 3
    /\ df[1].Case_Number # df[2].Case_Number
    /\ KeyChanges(df) = {2}
    /\ [p \in 1..3 |-> df[p].Decision_Counter] = <<1, 1, 2>>

\* C2: for a non-empty table the groupIndex values are exactly 1..k: the
\* first record has groupIndex 1 and every record a groupIndex >= 1.
C2_GroupIndexFromOne ==
    Grouped =>
        LET values == {df[p].Decision_Counter : p \in 1..Len(df)}
        IN  /\ df[1].Decision_Counter = 1
            /\ \A p \in 1..Len(df) : df[p].Decision_Counter >= 1
            /\ values = 1..Cardinality(values)

\* C3: two records without a case number never share a group.
C3_NullKeysApart ==
    Grouped =>
        \A p, q \in 1..Len(df) :
            (p < q /\ df[p].Case_Number = None /\ df[q].Case_Number = None)
                => df[p].Decision_Counter # df[q].Decision_Counter

\* C4 as claimed: after the by-case-cluster ordering no record with another
\* cluster key lies between two records that have the same cluster key.
C4_SameClusterAdjacent ==
    Ordered =>
        \A p, r, q \in 1..Len(df) :
            (/\ p < r /\ r < q
             /\ df[p].Case_Number # None
             /\ ShortCaseNumber(df[p].Case_Number) = ShortCaseNumber(df[q].Case_Number))
                => ShortCaseNumber(df[r].Case_Number) = ShortCaseNumber(df[p].Case_Number)

SameYearAndCluster(a, b) ==
    /\ YearSame(a.Extracted_dates, b.Extracted_dates)
    /\ ShortCaseNumber(a.Case_Number) = ShortCaseNumber(b.Case_Number)

\* C4 (amended): after the by-case-cluster ordering, the records that share
\* both the year and the cluster key are adjacent: no record of another year
\* or another cluster key lies between two records of the same year and
\* cluster key.
C4_SameYearClusterAdjacent ==
    Ordered =>
        \A p, r, q \in 1..Len(df) :
            (p < r /\ r < q /\ SameYearAndCluster(df[p], df[q]))
                => SameYearAndCluster(df[r], df[p])

\* the ordering brought together two records of one year and cluster that
\* another cluster of that year separated in the input
C4_Witness ==
    /\ Ordered
    /\ Len(df) = 3
    /\ df[1].label = 0 /\ df[2].label = 2 /\ df[3].label = 1
    /\ df[1].Case_Number # None
    /\ SameYearAndCluster(df[1], df[2])
    /\ YearSame(df[2].Extracted_dates, df[3].Extracted_dates)
    /\ ~SameYearAndCluster(df[2], df[3])

HasDateAndCase(r) == r.Extracted_dates # NaT /\ r.Case_Number # None

\* C5: after proper_ordering_cases_by_case_number, for two consecutive records
\* that both have a date and a case number, the pair (year, last-6-character
\* cluster key) does not decrease: the year ascends, and within a year the
\* cluster key ascends.
C5_YearThenClusterAscending ==
    Ordered =>
        \A p \in 1..(Len(df) - 1) :
            (HasDateAndCase(df[p]) /\ HasDateAndCase(df[p + 1])) =>
                \/ df[p].Extracted_dates[1] < df[p + 1].Extracted_dates[1]
                \/ /\ df[p].Extracted_dates[1] = df[p + 1].Extracted_dates[1]
                   /\ ~StrLess(LastChars(df[p + 1].Case_Number, 6), LastChars(df[p].Case_Number, 6))

\* a later year came first in the input, and within the earlier year the
\* larger cluster key came first
C5_Witness ==
    /\ Ordered
    /\ Len(df) = 3
    /\ \A p \in 1..3 : HasDateAndCase(df[p])
    /\ df[1].label = 2 /\ df[2].label = 1 /\ df[3].label = 0
    /\ df[1].Extracted_dates[1] = df[2].Extracted_dates[1]
    /\ StrLess(LastChars(df[1].Case_Number, 6), LastChars(df[2].Case_Number, 6))
    /\ df[2].Extracted_dates[1] < df[3].Extracted_dates[1]

----------------------------------------------------------------------------
(* main.py and ForMom.py                                                   *)

\* ' & '.join(extract_decisions_and_cases(decision_name))
CasesString(decision_name) == Join(<<" ", "&", " ">>, extract_decisions_and_cases(decision_name))

DecisionOf(row) ==
    [Filename |-> row.Filename, Decision_Date |-> row.Decision_Date,
     Cases_Numbers |-> CasesString(row.Filename)]

Decisions_DropEmpty(table) ==
    SelectSeq([k \in 1..Len(table) |-> DecisionOf(table[k])],
              LAMBDA d : d.Cases_Numbers # <<>>)

\* the list `decisions` built by `for _, row in df.iterrows()`
Decisions(table) == [k \in 1..Len(table) |-> DecisionOf(table[k])]

CountKey(d) == <<d.Cases_Numbers, d.Decision_Date>>

\* the dictionary decision_case_counts after the loop
CountsOf(ds) ==
    [key \in {CountKey(ds[k]) : k \in 1..Len(ds)} |->
        Cardinality({k \in 1..Len(ds) : CountKey(ds[k]) = key})]

CountAt_NaTMissing(counts, key) ==
    IF key \in DOMAIN counts /\ key[2] # NaT THEN counts[key] ELSE 0

\* decision_case_counts[key] of a defaultdict(int)
CountAt(counts, key) == IF key \in DOMAIN counts THEN counts[key] ELSE 0

TitleA == <<"C", "A", "S", " ", "2", "0", "1", "9", " ", "A", " ", "1">>
TitleAB == <<"C", "A", "S", " ", "2", "0", "1", "9", " ", "A", " ", "1", "+", "2">>
TitleNote == <<"N", "o", "t", "e">>

Filenames == {TitleA, TitleAB, TitleNote}
DecisionDates == {Date1, Date3, NaT}

\* main() of main.py and of ForMom.py after the sheet was read and its date
\* column converted
InitMain ==
    /\ script \in {"main", "ForMom"}
    /\ pc = "build"
    /\ rows \in {Frame(c) : c \in SeqsUpTo([Filename : Filenames,
                                            Decision_Date : DecisionDates], MaxRows)}
    /\ df = rows
    /\ title = <<>>
    /\ all_cases = <<>>
    /\ decision_case_counts = <<>>
    /\ row_idx = 0
    /\ counter = 0
    /\ blocks = <<>>
    /\ columns = <<>>
    /\ workbook = <<>>
    /\ df_archive = <<>>
    /\ df_bull = <<>>
    /\ subsets = <<>>
    /\ raised = "none"
    /\ charts = <<>>
    /\ ui = <<>>

\* the loop over the rows and all_decisions_df = pd.DataFrame(decisions, ...)
BuildDecisions ==
    /\ pc = "build"
    /\ df' = Frame(Decisions(df))
    /\ decision_case_counts' = CountsOf(Decisions(df))
    /\ pc' = "sort"
    /\ UNCHANGED <<script, title, all_cases, rows, row_idx, counter, blocks>>
    /\ UNCHANGED outVars

\* all_decisions_df.sort_values(by='Decision_Date'): descending in main.py,
\* ascending in ForMom.py; then the sheet is written and the loop set up
SortDecisions ==
    /\ pc = "sort"
    /\ \E perm \in SortValuesOrders([k \in 1..Len(df) |-> df[k].Decision_Date],
                                    script = "ForMom") :
          df' = Reorder(df, perm)
    /\ row_idx' = 2
    /\ counter' = 1
    /\ pc' = "merge"
    /\ UNCHANGED <<script, title, all_cases, rows, decision_case_counts, blocks>>
    /\ UNCHANGED outVars

\* one pass of `while row_idx <= len(all_decisions_df) + 1`
MergeStep ==
    /\ pc = "merge"
    /\ row_idx <= Len(df) + 1
    /\ LET row == df[row_idx - 1]
           decision_count == CountAt(decision_case_counts, CountKey(row))
           end_row == row_idx + decision_count - 1
       IN  /\ blocks' = Append(blocks, [row_idx |-> row_idx, end_row |-> end_row,
                                        counter |-> counter])
           /\ row_idx' = end_row + 1
    /\ counter' = counter + 1
    /\ UNCHANGED <<script, pc, title, all_cases, rows, df, decision_case_counts>>
    /\ UNCHANGED outVars

\* the loop condition fails
MergeDone ==
    /\ pc = "merge"
    /\ row_idx > Len(df) + 1
    /\ pc' = "done"
    /\ UNCHANGED <<script, title, all_cases, rows, df, decision_case_counts, row_idx, counter, blocks>>
    /\ UNCHANGED outVars

NextMain ==
    \/ BuildDecisions
    \/ SortDecisions
    \/ MergeStep
    \/ MergeDone

SpecMain == InitMain /\ [][NextMain]_vars

\* the same program with the loop run on: the script is single-threaded and
\* no pass of the loop waits for anything
SpecMainFair == SpecMain /\ WF_vars(MergeStep) /\ WF_vars(MergeDone)

----------------------------------------------------------------------------
(* Claims about main.py                                                    *)

\* the sheet row that ends the run of consecutive rows with the key of the
\* row at sheet row r (sheet row r holds df[r - 1])
RECURSIVE RunEnd(_, _)
RunEnd(d, r) ==
    IF r <= Len(d) /\ CountKey(d[r]) = CountKey(d[r - 1]) THEN RunEnd(d, r + 1) ELSE r

\* C6: the block that starts at a row spans exactly the maximal run of
\* consecutive rows, in sorted order, that have the (case string, decision
\* date) key of that row.
C6_BlockIsRun ==
    script \in {"main", "ForMom"} =>
        \A b \in 1..Len(blocks) : blocks[b].end_row = RunEnd(df, blocks[b].row_idx)

Built == script \in {"main", "ForMom"} /\ pc \in {"sort", "merge", "done"}

\* C10: a title that matches no identifier pattern gives an empty identifier
\* sequence, and its record is in the output table, once, with the empty case
\* string as its cluster key.
C10_ParseMissRetained ==
    Built =>
        \A k \in 1..Len(rows) :
            DecisionFindall(rows[k].Filename, 1) = <<>> =>
                /\ extract_decisions_and_cases(rows[k].Filename) = <<>>
                /\ Cardinality({p \in 1..Len(df) : df[p].label = rows[k].label}) = 1
                /\ \A p \in 1..Len(df) : df[p].label = rows[k].label =>
                      /\ df[p].Filename = rows[k].Filename
                      /\ df[p].Decision_Date = rows[k].Decision_Date
                      /\ df[p].Cases_Numbers = <<>>

\* a title without a reference between two titles with one, all written
C10_Witness ==
    /\ script = "main"
    /\ pc = "done"
    /\ Len(rows) = 3
    /\ rows[2].Filename = TitleNote
    /\ rows[1].Filename = TitleAB
    /\ rows[3].Filename = TitleA
    /\ \E p \in 1..Len(df) : df[p].Filename = TitleNote /\ df[p].Cases_Numbers = <<>>

----------------------------------------------------------------------------
(* The parser's case strings ordered by proper_ordering_cases_by_case_number *)
(* and grouped by group_identical_decisions                                *)

ScenarioTitle1 == <<"C", "A", "S", " ", "2", "0", "1", "9", " ", "A", "B", "C", " ", "1", " ",
                    "d", "e", "c", "i", "s", "i", "o", "n">>
ScenarioTitle2 == <<"C", "A", "S", " ", "2", "0", "1", "9", " ", "A", "B", "C", " ", "1", " ",
                    "s", "u", "p", "p", "l", "e", "m", "e", "n", "t">>
ScenarioTitle3 == <<"U", "n", "r", "e", "l", "a", "t", "e", "d", " ", "f", "i", "l", "i", "n", "g">>
TitleOther == <<"T", "A", "S", " ", "2", "0", "2", "0", " ", "B", " ", "2", "2", " ", "+", " ", "2", "3">>

ScenarioTitles == {ScenarioTitle1, ScenarioTitle2, ScenarioTitle3, TitleOther}
ScenarioDates == {Date1, Date2, Date3}

\* rows of (title, decision date), as main.py reads them
InitEngine ==
    /\ script = "engine"
    /\ pc = "normalize"
    /\ rows \in {Frame(c) : c \in SeqsUpTo([Filename : ScenarioTitles,
                                            Decision_Date : ScenarioDates], MaxRows)}
    /\ df = rows
    /\ title = <<>>
    /\ all_cases = <<>>
    /\ decision_case_counts = <<>>
    /\ row_idx = 0
    /\ counter = 0
    /\ blocks = <<>>
    /\ columns = <<>>
    /\ workbook = <<>>
    /\ df_archive = <<>>
    /\ df_bull = <<>>
    /\ subsets = <<>>
    /\ raised = "none"
    /\ charts = <<>>
    /\ ui = <<>>

\* the case string of every row, as main.py builds it, under the column names
\* the ordering and the grouping pass read
Normalize ==
    /\ pc = "normalize"
    /\ df' = [k \in 1..Len(df) |->
                [label |-> df[k].label, Filename |-> df[k].Filename,
                 Extracted_dates |-> df[k].Decision_Date,
                 Case_Number |-> CasesString(df[k].Filename)]]
    /\ pc' = "proper_ordering"
    /\ UNCHANGED <<script, title, all_cases, rows, decision_case_counts, row_idx, counter, blocks>>
    /\ UNCHANGED outVars

NextEngine ==
    \/ Normalize
    \/ ProperOrdering
    \/ GroupIdenticalDecisions

SpecEngine == InitEngine /\ [][NextEngine]_vars

ScenarioRows ==
    Frame(<<[Filename |-> ScenarioTitle1, Decision_Date |-> Date1],
            [Filename |-> ScenarioTitle2, Decision_Date |-> Date2],
            [Filename |-> ScenarioTitle3, Decision_Date |-> Date3]>>)

\* the number of records with groupIndex g
RunLength(d, g) == Cardinality({p \in 1..Len(d) : d[p].Decision_Counter = g})

----------------------------------------------------------------------------
(* decision_counter.py: the extraction of dates and case numbers           *)

\* the decimal number a digit string denotes
RECURSIVE Number(_)
Number(s) == IF s = <<>> THEN 0 ELSE 10 * Number(SubSeq(s, 1, Len(s) - 1)) + (Ord(s[Len(s)]) - Ord("0"))

\* re.match(r'^(\d{4} \d{2} \d{2})', s) succeeds
HasDateToken(s) ==
    /\ Len(s) >= 10
    /\ \A k \in {1, 2, 3, 4, 6, 7, 9, 10} : IsDigit(s[k])
    /\ s[5] = " " /\ s[8] = " "

\* the fields of the token under the format '%Y %m %d'
TokenDate(s) == <<Number(SubSeq(s, 1, 4)), Number(SubSeq(s, 6, 7)), Number(SubSeq(s, 9, 10))>>

IsLeap(y) == (y % 4 = 0 /\ y % 100 # 0) \/ y % 400 = 0

DaysInMonth(y, m) ==
    IF m \in {4, 6, 9, 11} THEN 30
    ELSE IF m = 2 THEN (IF IsLeap(y) THEN 29 ELSE 28)
    ELSE 31

\* the dates pd.to_datetime accepts: a calendar date that a Timestamp can hold
TimestampMin == <<1677, 9, 22>>
TimestampMax == <<2262, 4, 11>>

ValidDate(d) ==
    /\ d[2] >= 1 /\ d[2] <= 12
    /\ d[3] >= 1 /\ d[3] <= DaysInMonth(d[1], d[2])
    /\ ~DateLess(d, TimestampMin)
    /\ ~DateLess(TimestampMax, d)

\* extract_date(s) raises: pd.to_datetime(..., format='%Y %m %d') on a token
\* that is no date
ExtractDateRaises(s) == HasDateToken(s) /\ ~ValidDate(TokenDate(s))

\* extract_date(s) when it returns
extract_date(s) == IF HasDateToken(s) THEN TokenDate(s) ELSE NaT

\* index of the first character c of s at or after position i, 0 if none
RECURSIVE Find(_, _, _)
Find(s, c, i) ==
    IF i > Len(s) THEN 0
    ELSE IF s[i] = c THEN i
    ELSE Find(s, c, i + 1)

\* (\d{2,4})? ?([A-Z ]+) can match from position b on
KeyStart(s, b) ==
    \E k \in {0, 2, 3, 4}, sp \in {0, 1} :
        /\ RunLen(s, b, Digits) >= k
        /\ sp = 1 => CharAt(s, b + k) = " "
        /\ CharAt(s, b + k + sp) \in Uppers \cup {" "}

\* pattern_with_prefix at position p: the position of the closing ')' of the
\* match, 0 without a match.  (.*?)\) stops at the first ')' (the strings of
\* the model hold no line break, so '.' matches every character).
PrefixMatchEnd(s, p) ==
    LET a == p + 1 + RunLen(s, p + 1, Spaces)
    IN  IF /\ CharAt(s, p) = "("
           /\ a + 3 <= Len(s)
           /\ SubSeq(s, a, a + 2) \in {CAS, TAS}
           /\ s[a + 3] = " "
           /\ KeyStart(s, a + 4)
        THEN Find(s, ")", a + 4)
        ELSE 0

\* pattern_without_prefix at position p; \s* gives back blanks to [A-Z ]+
NoPrefixMatchEnd(s, p) ==
    IF /\ CharAt(s, p) = "("
       /\ \E w \in 0..RunLen(s, p + 1, Spaces) : KeyStart(s, p + 1 + w)
    THEN Find(s, ")", p + 1)
    ELSE 0

\* Python's s.strip('()')
RECURSIVE StripParens(_)
StripParens(s) ==
    IF s = <<>> THEN s
    ELSE IF s[1] \in {"(", ")"} THEN StripParens(Tail(s))
    ELSE IF s[Len(s)] \in {"(", ")"} THEN StripParens(SubSeq(s, 1, Len(s) - 1))
    ELSE s

extract_case_number_leftmost(s) ==
    LET ends(p) == IF PrefixMatchEnd(s, p) > 0 THEN PrefixMatchEnd(s, p)
                   ELSE NoPrefixMatchEnd(s, p)
        any == {p \in 1..Len(s) : ends(p) > 0}
        first == CHOOSE p \in any : \A q \in any : p <= q
    IN  IF any # {} THEN StripParens(SubSeq(s, first, ends(first))) ELSE None

\* re.search: the leftmost position with a match, with the prefix first
extract_case_number(s) ==
    LET with    == {p \in 1..Len(s) : PrefixMatchEnd(s, p) > 0}
        without == {p \in 1..Len(s) : NoPrefixMatchEnd(s, p) > 0}
        first(P) == CHOOSE p \in P : \A q \in P : p <= q
    IN  IF with # {}
        THEN StripParens(SubSeq(s, first(with), PrefixMatchEnd(s, first(with))))
        ELSE IF without # {}
             THEN StripParens(SubSeq(s, first(without), NoPrefixMatchEnd(s, first(without))))
             ELSE None

----------------------------------------------------------------------------
(* The partition of the table by title                                     *)

\* str.lower() of one character
Lower(c) == IF c \in Uppers THEN CodePoints[Ord(c) + Ord("a") - Ord("A")] ELSE c

LowerCase(s) == [k \in 1..Len(s) |-> Lower(s[k])]

\* sub occurs in s
Contains(s, sub) ==
    \E i \in 1..(Len(s) - Len(sub) + 1) : SubSeq(s, i, i + Len(sub) - 1) = sub

\* str.contains(sub, case=False, na=False) on a string
ContainsNoCase(s, sub) == Contains(LowerCase(s), LowerCase(sub))

WebArchives == <<"W", "e", "b", " ", "a", "r", "c", "h", "i", "v", "e", "s">>
Bull == <<"B", "u", "l", "l">>

archive_mask(row) == ContainsNoCase(row.Filename, WebArchives)
bull_mask(row) == ContainsNoCase(row.Filename, Bull)

separate_in_reverse(d) ==
    LET reverse(s) == [k \in 1..Len(s) |-> s[Len(s) + 1 - k]]
    IN  <<reverse(SelectSeq(d, archive_mask)), reverse(SelectSeq(d, bull_mask))>>

\* separate_into_sub_categories(df) when the 'Filename' column exists:
\* <<df[archive_mask], df[bull_mask]>>; the rows keep their labels
separate_into_sub_categories(d) ==
    <<SelectSeq(d, archive_mask), SelectSeq(d, bull_mask)>>

CASWebArchives == <<"[", "C", "A", "S", " ", "W", "e", "b", " ",
                    "A", "r", "c", "h", "i", "v", "e", "s", "]">>
CASBull == <<"C", "A", "S", " ", "B", "u", "l", "l">>

\* main.py: str.contains('\[CAS Web Archives\]') and str.contains('CAS Bull')
in_subset_1(row) == Contains(row.Filename, CASWebArchives)
in_subset_2(row) == Contains(row.Filename, CASBull)

\* main.py: <<subset_1, subset_2, subset_3>>; subset_3 holds the rows whose
\* Filename is the Filename of no row of subset_1 and of no row of subset_2
Subsets(d) ==
    LET subset_1 == SelectSeq(d, in_subset_1)
        subset_2 == SelectSeq(d, in_subset_2)
        names(sub) == {sub[k].Filename : k \in 1..Len(sub)}
        in_subset_3(row) == row.Filename \notin names(subset_1) /\ row.Filename \notin names(subset_2)
    IN  <<subset_1, subset_2, SelectSeq(d, in_subset_3)>>

----------------------------------------------------------------------------
(* decision_counter.py: main() from the input table to the output workbook *)

\* df.to_excel(writer, sheet_name, index=False): the rows without the labels
Sheet(d) == [p \in 1..Len(d) |-> [f \in DOMAIN d[p] \ {"label"} |-> d[p][f]]]

NoCaseNumbers == "ValueError: No case numbers matching the pattern were found."
NoFilenameColumn == "KeyError: The DataFrame must contain a 'Filename' column."
NoSuchDate == "ValueError: time data does not match the format or is out of range"

TitlePlain == <<"2", "0", "1", "9", " ", "0", "1", " ", "1", "0", " ",
                "(", "A", " ", "1", "2", "3", "4", ")">>
TitleBoth == <<"2", "0", "1", "9", " ", "0", "1", " ", "1", "1", " ",
               "W", "e", "b", " ", "a", "r", "c", "h", "i", "v", "e", "s", " ",
               "B", "u", "l", "l", " ", "(", "C", "A", "S", " ", "A", " ", "1", "2", "3", "4", ")">>
TitleBull == <<"2", "0", "2", "0", " ", "0", "5", " ", "0", "5", " ",
               "B", "U", "L", "L", " ", "(", "B", " ", "5", "6", "7", "8", ")">>
TitleBadDate == <<"2", "0", "1", "9", " ", "1", "3", " ", "0", "1", " ",
                  "(", "A", " ", "1", "2", "3", "4", ")">>

TitleShortA == <<"(", "A", " ", "1", ")">>
TitleShortB == <<"(", "B", " ", "2", ")">>

InputTitles == {TitlePlain, TitleBoth, TitleBull, TitleBadDate, TitleNote,
                TitleShortA, TitleShortB}

\* the column names of the input sheet: its first column is 'Filename', or not
InputColumns == {<<"Filename", "Size", "Date">>, <<"Title", "Size", "Date">>}

\* main() once the file names are known.  A row's field Filename is the cell
\* of the first column, which the extraction reads by position.
InitRun ==
    /\ script = "decision_counter_main"
    /\ pc = "read_input"
    /\ columns \in InputColumns
    /\ rows \in {Frame(c) : c \in SeqsUpTo([Filename : InputTitles], MaxRows)}
    /\ df = <<>>
    /\ title = <<>>
    /\ all_cases = <<>>
    /\ decision_case_counts = <<>>
    /\ row_idx = 0
    /\ counter = 0
    /\ blocks = <<>>
    /\ workbook = <<>>
    /\ df_archive = <<>>
    /\ df_bull = <<>>
    /\ subsets = <<>>
    /\ raised = "none"
    /\ charts = <<>>
    /\ ui = <<>>

\* the output file is created, the input sheet read and its third column
\* renamed
ReadInput ==
    /\ pc = "read_input"
    /\ df' = rows
    /\ columns' = [columns EXCEPT ![3] = "Kettle decision dates"]
    /\ workbook' = <<>>
    /\ pc' = "extract_dates"
    /\ UNCHANGED <<script, title, all_cases, rows, decision_case_counts, row_idx, counter, blocks>>
    /\ UNCHANGED <<df_archive, df_bull, subsets, raised, charts, ui>>

\* df = extract_dates_from_file_name_in_data_frame(df)
ExtractDates ==
    /\ pc = "extract_dates"
    /\ IF \E p \in 1..Len(df) : ExtractDateRaises(df[p].Filename)
       THEN /\ raised' = NoSuchDate
            /\ pc' = "aborted"
            /\ UNCHANGED <<df, columns>>
       ELSE /\ df' = [p \in 1..Len(df) |->
                        df[p] @@ [Extracted_dates |-> extract_date(df[p].Filename)]]
            /\ columns' = Append(columns, "Extracted dates")
            /\ pc' = "extract_case_number"
            /\ UNCHANGED raised
    /\ UNCHANGED <<script, title, all_cases, rows, decision_case_counts, row_idx, counter, blocks>>
    /\ UNCHANGED <<workbook, df_archive, df_bull, subsets, charts, ui>>

\* df = extract_and_write_case_number(df)
ExtractCaseNumber ==
    /\ pc = "extract_case_number"
    /\ df' = [p \in 1..Len(df) |->
                df[p] @@ [Case_Number |-> extract_case_number(df[p].Filename)]]
    /\ columns' = Append(columns, "Case Number")
    /\ IF \A p \in 1..Len(df) : extract_case_number(df[p].Filename) = None
       THEN raised' = NoCaseNumbers /\ pc' = "aborted"
       ELSE raised' = raised /\ pc' = "order"
    /\ UNCHANGED <<script, title, all_cases, rows, decision_case_counts, row_idx, counter, blocks>>
    /\ UNCHANGED <<workbook, df_archive, df_bull, subsets, charts, ui>>

\* df = order_data_frame(df); df = proper_ordering_cases_by_case_number(df)
Order ==
    /\ pc = "order"
    /\ \E perm \in SortValuesOrders([k \in 1..Len(df) |-> df[k].Extracted_dates], TRUE) :
          df' = proper_ordering_cases_by_case_number(Reorder(df, perm))
    /\ pc' = "write_main_data"
    /\ UNCHANGED <<script, title, all_cases, rows, decision_case_counts, row_idx, counter, blocks>>
    /\ UNCHANGED outVars

\* df_to_excel_sheet(df, output_file, 'MainData', mode='w')
WriteMainData ==
    /\ pc = "write_main_data"
    /\ workbook' = [MainData |-> Sheet(df)]
    /\ pc' = "separate"
    /\ UNCHANGED <<script, title, all_cases, rows, df, decision_case_counts, row_idx, counter, blocks>>
    /\ UNCHANGED <<columns, df_archive, df_bull, subsets, raised, charts, ui>>

\* df_archive, df_bull = separate_into_sub_categories(df)
Separate ==
    /\ pc = "separate"
    /\ IF \E k \in 1..Len(columns) : columns[k] = "Filename"
       THEN /\ df_archive' = separate_into_sub_categories(df)[1]
            /\ df_bull' = separate_into_sub_categories(df)[2]
            /\ pc' = "write_sub_categories"
            /\ UNCHANGED raised
       ELSE /\ raised' = NoFilenameColumn
            /\ pc' = "aborted"
            /\ UNCHANGED <<df_archive, df_bull>>
    /\ UNCHANGED <<script, title, all_cases, rows, df, decision_case_counts, row_idx, counter, blocks>>
    /\ UNCHANGED <<columns, workbook, subsets, charts, ui>>

\* df_to_excel_sheet(df_archive, ..., 'Archive', mode='a') and the same for
\* df_bull and 'Bull'
WriteSubCategories ==
    /\ pc = "write_sub_categories"
    /\ workbook' = [MainData |-> workbook.MainData,
                    Archive |-> Sheet(df_archive), Bull |-> Sheet(df_bull)]
    /\ pc' = "read_back"
    /\ UNCHANGED <<script, title, all_cases, rows, df, decision_case_counts, row_idx, counter, blocks>>
    /\ UNCHANGED <<columns, df_archive, df_bull, subsets, raised, charts, ui>>

\* the three sheets are read back: the rows get the labels 0..n-1
ReadBack ==
    /\ pc = "read_back"
    /\ df' = Frame(workbook.MainData)
    /\ df_archive' = Frame(workbook.Archive)
    /\ df_bull' = Frame(workbook.Bull)
    /\ pc' = "group"
    /\ UNCHANGED <<script, title, all_cases, rows, decision_case_counts, row_idx, counter, blocks>>
    /\ UNCHANGED <<columns, workbook, subsets, raised, charts, ui>>

\* group_identical_decisions on each of the three frames
GroupSheets ==
    /\ pc = "group"
    /\ df' = group_identical_decisions(df)
    /\ df_archive' = group_identical_decisions(df_archive)
    /\ df_bull' = group_identical_decisions(df_bull)
    /\ pc' = "write_grouped"
    /\ UNCHANGED <<script, title, all_cases, rows, decision_case_counts, row_idx, counter, blocks>>
    /\ UNCHANGED <<columns, workbook, subsets, raised, charts, ui>>

\* the three frames are written: 'MainData' with mode='w', then 'Archive' and
\* 'Bull'
WriteGrouped ==
    /\ pc = "write_grouped"
    /\ workbook' = [MainData |-> Sheet(df),
                    Archive |-> Sheet(df_archive), Bull |-> Sheet(df_bull)]
    /\ pc' = "done"
    /\ UNCHANGED <<script, title, all_cases, rows, df, decision_case_counts, row_idx, counter, blocks>>
    /\ UNCHANGED <<columns, df_archive, df_bull, subsets, raised, charts, ui>>

NextRun ==
    \/ ReadInput
    \/ ExtractDates
    \/ ExtractCaseNumber
    \/ Order
    \/ WriteMainData
    \/ Separate
    \/ WriteSubCategories
    \/ ReadBack
    \/ GroupSheets
    \/ WriteGrouped

SpecRun == InitRun /\ [][NextRun]_vars

----------------------------------------------------------------------------
(* Claims about the run of decision_counter.py                             *)

Running == script = "decision_counter_main"

\* C11: case-number extraction completes on every batch of titles, also on a
\* batch in which no title yields a case number, and returns every record,
\* with a null case number where nothing matched.
C11_ExtractionCompletes ==
    Running =>
        /\ raised # NoCaseNumbers
        /\ pc = "order" =>
              /\ Len(df) = Len(rows)
              /\ \A p \in 1..Len(df) :
                    df[p].Case_Number = extract_case_number(rows[p].Filename)

\* C12: when the input table has no 'Filename' column the run aborts and, at
\* the moment of the abort, no sheet of the output workbook has been written.
C12_NoPartialOutput ==
    (Running /\ raised = NoFilenameColumn) => DOMAIN workbook = {}

\* C13: date extraction never aborts the batch; it gives every record the
\* date of a leading 'YYYY MM DD' token that is a calendar date, and an
\* absent date otherwise.
C13_DateOrAbsent ==
    Running =>
        /\ raised # NoSuchDate
        /\ pc = "extract_case_number" =>
              /\ Len(df) = Len(rows)
              /\ \A p \in 1..Len(df) :
                    df[p].Extracted_dates =
                        IF HasDateToken(rows[p].Filename) /\ ValidDate(TokenDate(rows[p].Filename))
                        THEN TokenDate(rows[p].Filename)
                        ELSE NaT

\* C16: the groupIndex written for a record on the sheet of a partition is
\* the groupIndex of that record on the sheet of the full table.
C16_PartitionKeepsGroupIndex ==
    (Running /\ pc = "done") =>
        \A sheet \in {"Archive", "Bull"} :
            \A p \in 1..Len(workbook[sheet]), q \in 1..Len(workbook.MainData) :
                workbook[sheet][p].Filename = workbook.MainData[q].Filename
                    => workbook[sheet][p].Decision_Counter
                           = workbook.MainData[q].Decision_Counter

----------------------------------------------------------------------------
(* The orderings on their own: a table is drawn and an ordering applied    *)

SortDates == {Date1, Date3, NaT}
SortCaseNumbers == {CaseA2019, CaseB, None}

AlreadyExists == "ValueError: cannot insert Decision Counter, already exists"

\* a frame with a date column ('Decision_Date' in main.py and ForMom.py,
\* 'Extracted dates' in decision_counter.py) and a 'Case Number' column
InitSort ==
    /\ script = "ordering"
    /\ pc = "input"
    /\ rows \in {Frame(c) : c \in SeqsUpTo([Extracted_dates : SortDates,
                                            Case_Number : SortCaseNumbers], MaxRows)}
    /\ df = rows
    /\ columns = <<"Extracted dates", "Case Number">>
    /\ title = <<>>
    /\ all_cases = <<>>
    /\ decision_case_counts = <<>>
    /\ row_idx = 0
    /\ counter = 0
    /\ blocks = <<>>
    /\ workbook = <<>>
    /\ df_archive = <<>>
    /\ df_bull = <<>>
    /\ subsets = <<>>
    /\ raised = "none"
    /\ charts = <<>>
    /\ ui = <<>>

\* main.py: sort_values(by='Decision_Date', ascending=False)
SortByDateDescending ==
    /\ pc = "input"
    /\ \E perm \in SortValuesOrders([k \in 1..Len(df) |-> df[k].Extracted_dates], FALSE) :
          df' = Reorder(df, perm)
    /\ pc' = "by_date_descending"
    /\ UNCHANGED <<script, title, all_cases, rows, decision_case_counts, row_idx, counter, blocks>>
    /\ UNCHANGED outVars

\* order_data_frame(df), and ForMom.py: sort_values(by=['Decision_Date'])
SortByDateAscending ==
    /\ pc = "input"
    /\ \E perm \in SortValuesOrders([k \in 1..Len(df) |-> df[k].Extracted_dates], TRUE) :
          df' = Reorder(df, perm)
    /\ pc' = "by_date_ascending"
    /\ UNCHANGED <<script, title, all_cases, rows, decision_case_counts, row_idx, counter, blocks>>
    /\ UNCHANGED outVars

\* proper_ordering_cases_by_case_number(df)
OrderByCluster ==
    /\ pc = "input"
    /\ df' = proper_ordering_cases_by_case_number(df)
    /\ pc' = "by_cluster"
    /\ UNCHANGED <<script, title, all_cases, rows, decision_case_counts, row_idx, counter, blocks>>
    /\ UNCHANGED outVars

\* group_identical_decisions(proper_ordering_cases_by_case_number(df)), on the
\* drawn table and then on the frame the first application returned:
\* df.insert raises when the frame has a 'Decision Counter' column
OrderAndGroup ==
    /\ pc \in {"input", "grouped"}
    /\ IF \E k \in 1..Len(columns) : columns[k] = "Decision Counter"
       THEN /\ df' = proper_ordering_cases_by_case_number(df)
            /\ raised' = AlreadyExists
            /\ pc' = "aborted"
            /\ UNCHANGED columns
       ELSE /\ df' = group_identical_decisions(proper_ordering_cases_by_case_number(df))
            /\ columns' = <<"Decision Counter">> \o columns
            /\ pc' = "grouped"
            /\ UNCHANGED raised
    /\ UNCHANGED <<script, title, all_cases, rows, decision_case_counts, row_idx, counter, blocks>>
    /\ UNCHANGED <<workbook, df_archive, df_bull, subsets, charts, ui>>

NextSort ==
    \/ SortByDateDescending
    \/ SortByDateAscending
    \/ OrderByCluster
    \/ OrderAndGroup

SpecSort == InitSort /\ [][NextSort]_vars

ByDate == script = "ordering" /\ pc \in {"by_date_descending", "by_date_ascending"}
ByCluster == script = "ordering" /\ pc = "by_cluster"

\* the ordering kept every row of the input
Retained ==
    /\ Len(df) = Len(rows)
    /\ \A k \in 1..Len(rows) : \E p \in 1..Len(df) : df[p] = rows[k]

\* C14: a record without a date is retained by the ordering and placed after
\* all records that have a date, in the by-date orderings (descending and
\* ascending) and in the by-case-cluster ordering alike.
C14_UndatedLast ==
    (ByDate \/ ByCluster) =>
        /\ Retained
        /\ \A p, q \in 1..Len(df) :
              (p < q /\ df[p].Extracted_dates = NaT) => df[q].Extracted_dates = NaT

\* the undated record came first in the input and is last after the
\* descending sort, behind the earlier of two dates
C14_Witness ==
    /\ script = "ordering" /\ pc = "by_date_descending"
    /\ Len(df) = 3
    /\ rows[1].Extracted_dates = NaT
    /\ df[1].Extracted_dates = Date3
    /\ df[2].Extracted_dates = Date1
    /\ df[3] = rows[1]

\* C18: in every ordering (by date; by year then cluster key) two records
\* with identical sort keys come out in the relative order of the input.
C18_StableSort ==
    /\ ByDate =>
          \A p, q \in 1..Len(df) :
              (p < q /\ df[p].Extracted_dates = df[q].Extracted_dates)
                  => df[p].label < df[q].label
    /\ ByCluster =>
          \A p, q \in 1..Len(df) :
              (p < q /\ SameYearAndCluster(df[p], df[q])) => df[p].label < df[q].label

\* C19: the ordering-and-grouping step gives one result per input, and
\* applied again to the frame it returned it completes and changes neither
\* the order nor any groupIndex.
C19_Idempotent ==
    (script = "ordering" /\ pc \in {"grouped", "aborted"}) =>
        /\ raised = "none"
    /\ charts = <<>>
    /\ ui = <<>>
        /\ df = group_identical_decisions(proper_ordering_cases_by_case_number(rows))

----------------------------------------------------------------------------
(* The partitioner on its own: an ordered table is drawn and partitioned   *)

TitleArchive == CASWebArchives \o <<" ", "x">>
TitleCASBull == CASBull \o <<" ", "1">>
TitleArchiveBull == CASWebArchives \o <<" ">> \o CASBull
TitleLowerBull == <<"b", "u", "l", "l">>

PartitionTitles == {TitleArchive, TitleCASBull, TitleArchiveBull, TitleLowerBull, TitleNote}

\* the table the partitioner gets: sorted before, so that the row labels are
\* in any order
InitPartition ==
    /\ script \in {"main", "decision_counter"}
    /\ pc = "partition"
    /\ rows \in {Frame(c) : c \in SeqsUpTo([Filename : PartitionTitles], MaxRows)}
    /\ df \in {Reorder(rows, perm) : perm \in Perms(Len(rows))}
    /\ columns = <<"Filename">>
    /\ title = <<>>
    /\ all_cases = <<>>
    /\ decision_case_counts = <<>>
    /\ row_idx = 0
    /\ counter = 0
    /\ blocks = <<>>
    /\ workbook = <<>>
    /\ df_archive = <<>>
    /\ df_bull = <<>>
    /\ subsets = <<>>
    /\ raised = "none"
    /\ charts = <<>>
    /\ ui = <<>>

\* main.py: subset_1, subset_2, subset_3
DefineSubsets ==
    /\ script = "main"
    /\ pc = "partition"
    /\ subsets' = Subsets(df)
    /\ pc' = "partitioned"
    /\ UNCHANGED <<script, title, all_cases, rows, df, decision_case_counts, row_idx, counter, blocks>>
    /\ UNCHANGED <<columns, workbook, df_archive, df_bull, raised, charts, ui>>

\* decision_counter.py: df_archive, df_bull = separate_into_sub_categories(df)
SeparateIntoSubCategories ==
    /\ script = "decision_counter"
    /\ pc = "partition"
    /\ df_archive' = separate_into_sub_categories(df)[1]
    /\ df_bull' = separate_into_sub_categories(df)[2]
    /\ pc' = "partitioned"
    /\ UNCHANGED <<script, title, all_cases, rows, df, decision_case_counts, row_idx, counter, blocks>>
    /\ UNCHANGED <<columns, workbook, subsets, raised, charts, ui>>

NextPartition ==
    \/ DefineSubsets
    \/ SeparateIntoSubCategories

SpecPartition == InitPartition /\ [][NextPartition]_vars

Partitioned == pc = "partitioned"

\* the partitions by name: main.py has two named ones and 'Other',
\* decision_counter.py the two named ones
Partitions ==
    IF script = "main"
    THEN [Archive |-> subsets[1], Bull |-> subsets[2], Other |-> subsets[3]]
    ELSE [Archive |-> df_archive, Bull |-> df_bull]

\* the labels of the rows of a frame
Labels(d) == {d[k].label : k \in 1..Len(d)}

\* the title matches a named predicate of the running script
MatchesNamed(row) ==
    IF script = "main" THEN in_subset_1(row) \/ in_subset_2(row)
    ELSE archive_mask(row) \/ bull_mask(row)

\* C15: every record of the input table is in exactly one partition: in at
\* most one named partition, in "Other" if and only if its title matches none
\* of the named predicates, and the partitions together hold the full input
\* with no duplicates and no omissions.
C15_ExactlyOnePartition ==
    Partitioned =>
        /\ Labels(Partitions.Archive) \cap Labels(Partitions.Bull) = {}
        /\ "Other" \in DOMAIN Partitions
        /\ \A k \in 1..Len(df) :
              /\ ~MatchesNamed(df[k]) <=> df[k].label \in Labels(Partitions.Other)
              /\ Cardinality({n \in DOMAIN Partitions :
                                  df[k].label \in Labels(Partitions[n])}) = 1

\* position of the row with this label in the frame d
PositionIn(d, label) == CHOOSE k \in 1..Len(d) : d[k].label = label

\* C17: within every partition the records are in the relative order they
\* have in the ordered input table.
C17_PartitionKeepsOrder ==
    Partitioned =>
        \A n \in DOMAIN Partitions :
            \A p, q \in 1..Len(Partitions[n]) :
                p < q => PositionIn(df, Partitions[n][p].label)
                             < PositionIn(df, Partitions[n][q].label)

\* two 'Bull' rows with a row of no partition between them in the table, the
\* first of them with the larger label
C17_Witness ==
    /\ Partitioned
    /\ script = "decision_counter"
    /\ Len(df) = 3
    /\ Len(df_bull) = 2
    /\ df_bull[1] = df[1] /\ df_bull[2] = df[3]
    /\ df[1].label > df[3].label
    /\ ~MatchesNamed(df[2])

----------------------------------------------------------------------------
(* The canonical case string                                               *)

\* the identifier has four non-empty fields separated by single blanks
FourFields(c) ==
    LET f == SplitWs(c, <<>>)
    IN  /\ Len(f) = 4
        /\ \A i \in 1..4 : f[i] # <<>>
        /\ c = Join(<<" ">>, f)

\* C21: the canonical case string of a title is the sequence of its
\* identifiers in order of appearance, each rendered as
\* "<prefix> <year> <series> <number>" with all four fields populated, joined
\* with " & "; it holds as many identifiers as the parser returned.
C21_CanonicalString ==
    pc = "parsed" =>
        /\ CasesString(title) = Join(<<" ", "&", " ">>, MatchesCases(DecisionFindall(title, 1)))
        /\ \A k \in 1..Len(all_cases) : FourFields(all_cases[k])
        /\ all_cases # <<>> => SplitOn(CasesString(title), <<" ", "&", " ">>, <<>>) = all_cases

\* "CAS 2020 ABC 123 + 456" has the canonical string
\* "CAS 2020 ABC 123 & CAS 2020 ABC 456"
C21_Witness ==
    /\ pc = "parsed"
    /\ title = CarryOverTitle
    /\ CasesString(title) = CAS \o <<" ">> \o Str2020 \o <<" ">> \o StrABC \o <<" ">> \o Str123
                            \o <<" ", "&", " ">>
                            \o CAS \o <<" ">> \o Str2020 \o <<" ">> \o StrABC \o <<" ">> \o Str456

----------------------------------------------------------------------------
(* The cluster key in the sort and in the grouping pass                    *)

SortedRun == Running /\ pc \in {"write_main_data", "separate", "write_sub_categories", "read_back"}
GroupedRun == Running /\ pc \in {"write_grouped", "done"}

\* C22: for every record that has a case-number string, the cluster key is
\* the last 6 characters of that string, in the sort by cluster and in the
\* grouping pass.
C22_ClusterKeyLastSix ==
    /\ SortedRun =>
          \A p \in 1..Len(df) :
              df[p].Case_Number # None =>
                  ShortCaseNumber(df[p].Case_Number) = LastChars(df[p].Case_Number, 6)
    /\ GroupedRun =>
          \A p \in 1..Len(df) :
              df[p].Case_Number # None =>
                  LastSix(df[p].Case_Number) = LastChars(df[p].Case_Number, 6)

\* C27: for every record the cluster key the sort uses equals the cluster
\* key the grouping pass compares, so that two adjacent records which the
\* sort treats as different clusters never get the same groupIndex.
C27_SortKeyIsGroupKey ==
    GroupedRun =>
        /\ \A p \in 1..Len(df) :
              ShortCaseNumber(df[p].Case_Number) = LastSix(df[p].Case_Number)
        /\ \A p \in 1..(Len(df) - 1) :
              ShortCaseNumber(df[p].Case_Number) # ShortCaseNumber(df[p + 1].Case_Number)
                  => df[p].Decision_Counter # df[p + 1].Decision_Counter

----------------------------------------------------------------------------
(* The grouping pass on a re-ordered frame                                 *)

\* the counters of the scan taken over the rows in their current order
CountersInRowOrder(d) ==
    GroupLoop([p \in 1..Len(d) |-> [d[p] EXCEPT !.label = p - 1]], 0, None, 0, <<>>)

\* C28: group_identical_decisions scans the records in their current row
\* order, also on a frame that the sort re-ordered without renumbering its
\* row labels: the counter stored at row position p is the one computed from
\* the case number of the record at row position p.
C28_ScanInRowOrder ==
    (script = "ordering" /\ pc = "grouped") =>
        [p \in 1..Len(df) |-> df[p].Decision_Counter] = CountersInRowOrder(df)

----------------------------------------------------------------------------
(* The orderings as permutations                                           *)

\* C24: an ordering step returns a permutation of its input records: every
\* input record is in the output exactly once, records with identical
\* content are all kept, and the output has as many records as the input.
C24_Permutation ==
    (ByDate \/ ByCluster) =>
        /\ Len(df) = Len(rows)
        /\ Labels(df) = Labels(rows)
        /\ \A p \in 1..Len(df) : df[p] = rows[df[p].label + 1]

\* two records with the same date and case number, separated in the input,
\* are both in the re-ordered output
C24_Witness ==
    /\ ByCluster
    /\ Len(rows) = 3
    /\ rows[1].Extracted_dates = rows[3].Extracted_dates
    /\ rows[1].Case_Number = rows[3].Case_Number
    /\ rows[1].Case_Number # None
    /\ df = <<rows[2], rows[1], rows[3]>>

----------------------------------------------------------------------------
(* The merge-block loop of main.py: its blocks and its termination         *)

Covering(r) == {b \in 1..Len(blocks) : blocks[b].row_idx <= r /\ r <= blocks[b].end_row}

\* C25: the merged and numbered row blocks [row_idx, end_row] are pairwise
\* disjoint, cover every data row exactly once, and every end_row is at most
\* the number of records plus 1.
C25_BlocksPartition ==
    (script \in {"main", "ForMom"} /\ pc = "done") =>
        /\ \A r \in 2..(Len(df) + 1) : Cardinality(Covering(r)) = 1
        /\ \A b \in 1..Len(blocks) : blocks[b].end_row <= Len(df) + 1

\* the count found for the row at which the next block starts
CurrentCount == CountAt(decision_case_counts, CountKey(df[row_idx - 1]))

\* C26: the merge-block loop terminates for every input table: the count
\* looked up for the current row's key is always at least 1, every block
\* ends at or after the row it starts at, and a loop that was entered is
\* eventually left.
C26_LoopTerminates ==
    /\ [](pc = "merge" /\ row_idx <= Len(df) + 1 => CurrentCount >= 1)
    /\ [](\A b \in 1..Len(blocks) : blocks[b].end_row >= blocks[b].row_idx)
    /\ (pc = "merge" ~> pc = "done")

\* the loop was left after more than one block, one of them for a record
\* without a date
C26_Witness ==
    /\ script = "main"
    /\ pc = "done"
    /\ Len(blocks) >= 2
    /\ row_idx > Len(df) + 1
    /\ \E p \in 1..Len(df) : df[p].Decision_Date = NaT

----------------------------------------------------------------------------
(* main.py: the year frequency tables handed to plot_frequency_bar_chart   *)

\* [date.year for date in d['Decision_Date'] if pd.notnull(date)]
decision_years(d) ==
    LET notnull(row) == row.Decision_Date # NaT
        dated == SelectSeq(d, notnull)
    IN  [k \in 1..Len(dated) |-> dated[k].Decision_Date[1]]

year_counts_once(years) ==
    [y \in {years[k] : k \in 1..Len(years)} |-> 1]

\* Counter(decision_years)
year_counts(years) ==
    [y \in {years[k] : k \in 1..Len(years)} |->
        Cardinality({k \in 1..Len(years) : years[k] = y})]

\* list(year_counts.items()): the years in the order of their first occurrence
data_for_chart(years) ==
    LET first == {k \in 1..Len(years) : \A j \in 1..(k - 1) : years[j] # years[k]}
        nth(i) == CHOOSE k \in first : Cardinality({j \in first : j < k}) = i - 1
    IN  [i \in 1..Cardinality(first) |-> <<years[nth(i)], year_counts(years)[years[nth(i)]]>>]

sheet_names == <<"CAS Web Archives", "CAS Bull", "Other">>

ChartTitles == {TitleArchive, TitleCASBull, TitleNote}
ChartDates == {Date1, Date2, Date3, NaT}

\* main() of main.py after the merge-block loop: all_decisions_df is sorted
\* by date, latest first
InitCharts ==
    /\ script = "main"
    /\ pc = "chart"
    /\ rows \in {Frame(c) : c \in SeqsUpTo([Filename : ChartTitles,
                                            Decision_Date : ChartDates], MaxRows)}
    /\ df \in {Reorder(rows, perm) :
                  perm \in SortValuesOrders([k \in 1..Len(rows) |-> rows[k].Decision_Date], FALSE)}
    /\ title = <<>>
    /\ all_cases = <<>>
    /\ decision_case_counts = <<>>
    /\ row_idx = 0
    /\ counter = 0
    /\ blocks = <<>>
    /\ columns = <<>>
    /\ workbook = <<>>
    /\ df_archive = <<>>
    /\ df_bull = <<>>
    /\ subsets = <<>>
    /\ raised = "none"
    /\ charts = <<>>
    /\ ui = <<>>

\* the chart of the sheet 'Cases_Numbers', then the three subsets are defined
PlotMainChart ==
    /\ pc = "chart"
    /\ charts' = <<[sheet_name |-> "Cases_Numbers",
                    data_for_chart |-> data_for_chart(decision_years(df))]>>
    /\ subsets' = Subsets(df)
    /\ counter' = 1
    /\ pc' = "subsets"
    /\ UNCHANGED <<script, title, all_cases, rows, df, decision_case_counts, row_idx, blocks>>
    /\ UNCHANGED <<columns, workbook, df_archive, df_bull, raised, ui>>

\* one pass of `for i, subset in enumerate(subsets, start=1)`: the sheet is
\* written and its chart plotted
PlotSubsetChart ==
    /\ pc = "subsets"
    /\ counter <= Len(subsets)
    /\ charts' = Append(charts, [sheet_name |-> sheet_names[counter],
                                 data_for_chart |-> data_for_chart(decision_years(subsets[counter]))])
    /\ counter' = counter + 1
    /\ UNCHANGED <<script, pc, title, all_cases, rows, df, decision_case_counts, row_idx, blocks>>
    /\ UNCHANGED <<columns, workbook, df_archive, df_bull, subsets, raised, ui>>

\* the loop over the subsets is exhausted
ChartsDone ==
    /\ pc = "subsets"
    /\ counter > Len(subsets)
    /\ pc' = "charted"
    /\ UNCHANGED <<script, title, all_cases, rows, df, decision_case_counts, row_idx, counter, blocks>>
    /\ UNCHANGED outVars

NextCharts ==
    \/ PlotMainChart
    \/ PlotSubsetChart
    \/ ChartsDone

SpecCharts == InitCharts /\ [][NextCharts]_vars

\* the records of the sheet a chart is on
SheetRecords(c) == IF c = 1 THEN df ELSE subsets[c - 1]

Dated(d) == {p \in 1..Len(d) : d[p].Decision_Date # NaT}

InYear(d, y) == {p \in Dated(d) : d[p].Decision_Date[1] = y}

RECURSIVE SumCounts(_, _)
SumCounts(data, i) == IF i > Len(data) THEN 0 ELSE data[i][2] + SumCounts(data, i + 1)

\* C23: on every output sheet the frequency table has one entry per calendar
\* year in which a record of the sheet is dated, the entry's count is the
\* number of the sheet's records dated in that year, records without a date
\* are not counted, and the counts sum to the number of dated records.
C23_FrequencyTable ==
    (script = "main" /\ pc = "charted") =>
        /\ Len(charts) = 4
        /\ \A c \in 1..Len(charts) :
              LET data == charts[c].data_for_chart
                  recs == SheetRecords(c)
              IN  /\ \A e, g \in 1..Len(data) : data[e][1] = data[g][1] => e = g
                  /\ {data[e][1] : e \in 1..Len(data)} = {recs[p].Decision_Date[1] : p \in Dated(recs)}
                  /\ \A e \in 1..Len(data) : data[e][2] = Cardinality(InYear(recs, data[e][1]))
                  /\ SumCounts(data, 1) = Cardinality(Dated(recs))

\* the main table has two records of 2019 with different dates and one
\* without a date; a partition has one of the dated records and the undated
C23_Witness ==
    /\ script = "main"
    /\ pc = "charted"
    /\ Len(df) = 3
    /\ charts[1].data_for_chart = <<<<2019, 2>>>>
    /\ charts[4].data_for_chart = <<<<2019, 1>>>>
    /\ Len(subsets[3]) = 2
    /\ \E p \in 1..Len(df) : df[p].Decision_Date = Date1
    /\ \E p \in 1..Len(df) : df[p].Decision_Date = Date2

----------------------------------------------------------------------------
(* extract_and_write_case_number on titles built from bracketed tokens     *)

Str2019 == <<"2", "0", "1", "9">>
Str1234 == <<"1", "2", "3", "4">>

\* a bracketed case-number token (prefix, year, series, number; prefix and
\* year may be missing), a bracketed remark, or no token at all
Tokens ==
    [kind : {"token"}, prefix : {CAS, TAS, <<>>}, year : {Str2019, <<"1", "9">>, <<>>},
     series : {<<"A">>, <<"A", "B">>}, number : {Str1234}]
    \cup [kind : {"remark", "absent"}, prefix : {<<>>}, year : {<<>>},
          series : {<<>>}, number : {<<>>}]

NonEmpty(f) == f # <<>>

\* the token without its brackets
TokenText(t) ==
    IF t.kind = "token"
    THEN Join(<<" ">>, SelectSeq(<<t.prefix, t.year, t.series, t.number>>, NonEmpty))
    ELSE IF t.kind = "remark" THEN <<"s", "e", "e", " ", "n", "o", "t", "e">>
    ELSE <<>>

Bracketed(t) == IF t.kind = "absent" THEN <<>> ELSE <<"(">> \o TokenText(t) \o <<")">>

TokenLeads == {<<>>, <<"x", " ">>}

\* a title with up to two bracketed tokens
TokenTitle(lead, t1, t2) == lead \o Bracketed(t1) \o <<" ">> \o Bracketed(t2)

\* main() of decision_counter.py at the call of
\* extract_and_write_case_number, on a table of one title
InitExtract ==
    /\ script = "decision_counter_main"
    /\ pc = "extract_case_number"
    /\ \E lead \in TokenLeads, t1, t2 \in Tokens :
          rows = Frame(<<[Filename |-> TokenTitle(lead, t1, t2), Extracted_dates |-> NaT]>>)
    /\ df = rows
    /\ columns = <<"Filename", "Size", "Kettle decision dates", "Extracted dates">>
    /\ title = <<>>
    /\ all_cases = <<>>
    /\ decision_case_counts = <<>>
    /\ row_idx = 0
    /\ counter = 0
    /\ blocks = <<>>
    /\ workbook = <<>>
    /\ df_archive = <<>>
    /\ df_bull = <<>>
    /\ subsets = <<>>
    /\ raised = "none"
    /\ charts = <<>>
    /\ ui = <<>>

NextExtract == ExtractCaseNumber

SpecExtract == InitExtract /\ [][NextExtract]_vars

Extracted == script = "decision_counter_main" /\ pc \in {"order", "aborted"}

Prefixed(t) == t.kind = "token" /\ t.prefix # <<>>
Plain(t) == t.kind = "token" /\ t.prefix = <<>>

\* what the claim says is returned for a title built from t1 and t2
FirstPrefixedElsePlain(t1, t2) ==
    IF Prefixed(t1) THEN TokenText(t1)
    ELSE IF Prefixed(t2) THEN TokenText(t2)
    ELSE IF Plain(t1) THEN TokenText(t1)
    ELSE IF Plain(t2) THEN TokenText(t2)
    ELSE None

----------------------------------------------------------------------------
(* decision_counter.py: ask_names_of_files_ui, the event loop              *)

MaxText == 2

xlsx == <<".xlsx">>

\* the path of the Confirm button (relative to the working directory) and
\* the path of the Enter key (below base_path) for a typed name
ClickPath(text) == text \o xlsx
EnterPath(text) == <<"base_path", "/">> \o text \o xlsx

\* the files that exist: the script's directory is the working directory
\* and holds a.xlsx
Disk == {ClickPath(<<"a">>), EnterPath(<<"a">>)}

\* os.path.isfile
isfile(path) == path \in Disk

\* the events pygame.event.get() hands over; event.unicode of the one
\* character key is 'a'
Events ==
    [type : {"QUIT"}, pos : {""}, key : {""}]
    \cup [type : {"MOUSEBUTTONDOWN"},
          pos : {"input_box", "output_box", "confirm_button", "elsewhere"}, key : {""}]
    \cup [type : {"KEYDOWN"}, pos : {""},
          key : {"K_RETURN", "K_TAB", "K_BACKSPACE", "K_a"}]

\* the locals of ask_names_of_files_ui before `while not done`
InitUI ==
    /\ script = "ask_names_of_files_ui"
    /\ pc = "while"
    /\ ui = [active |-> "input", text_input |-> <<>>, text_output |-> <<>>,
             done |-> FALSE, input_valid |-> TRUE, output_valid |-> TRUE,
             input_file |-> None, output_file |-> None,
             event |-> [type |-> "", pos |-> "", key |-> ""],
             result |-> <<>>]
    /\ rows = <<>>
    /\ df = <<>>
    /\ title = <<>>
    /\ all_cases = <<>>
    /\ decision_case_counts = <<>>
    /\ row_idx = 0
    /\ counter = 0
    /\ blocks = <<>>
    /\ columns = <<>>
    /\ workbook = <<>>
    /\ df_archive = <<>>
    /\ df_bull = <<>>
    /\ subsets = <<>>
    /\ raised = "none"
    /\ charts = <<>>

uiRest == <<script, title, all_cases, rows, df, decision_case_counts, row_idx, counter,
            blocks, columns, workbook, df_archive, df_bull, subsets, raised, charts>>

\* `while not done:` holds and pygame.event.get() returns the next batch
GetEvents ==
    /\ pc = "while"
    /\ ~ui.done
    /\ pc' = "for"
    /\ UNCHANGED ui
    /\ UNCHANGED uiRest

\* text[:-1]
DropLast(text) == SubSeq(text, 1, Len(text) - 1)

\* the two assignments and the two checks of a confirmation
Confirmation(u, input_file, output_file) ==
    [u EXCEPT !.input_file = input_file,
              !.output_file = output_file,
              !.input_valid = isfile(input_file),
              !.output_valid = ~isfile(output_file),
              !.done = u.done \/ (isfile(input_file) /\ ~isfile(output_file))]

\* the body of `for event in pygame.event.get()` for a QUIT event
HandleQuit ==
    /\ pc = "for"
    /\ \E event \in Events :
          /\ event.type = "QUIT"
          /\ ui' = [ui EXCEPT !.event = event, !.done = TRUE, !.result = <<None, None>>]
    /\ pc' = "returned"
    /\ UNCHANGED uiRest

\* ... for a MOUSEBUTTONDOWN event
HandleMouseButtonDown ==
    /\ pc = "for"
    /\ \E event \in Events :
          /\ event.type = "MOUSEBUTTONDOWN"
          /\ LET u == [ui EXCEPT !.event = event]
             IN  ui' = CASE event.pos = "input_box" -> [u EXCEPT !.active = "input"]
                         [] event.pos = "output_box" -> [u EXCEPT !.active = "output"]
                         [] event.pos = "confirm_button" ->
                                Confirmation(u, ClickPath(u.text_input), ClickPath(u.text_output))
                         [] OTHER -> [u EXCEPT !.active = "None"]
    /\ UNCHANGED pc
    /\ UNCHANGED uiRest

\* ... for a KEYDOWN event; the typed names are kept to MaxText characters
HandleKeyDown ==
    /\ pc = "for"
    /\ \E event \in Events :
          /\ event.type = "KEYDOWN"
          /\ event.key = "K_a" /\ ui.active = "input" => Len(ui.text_input) < MaxText
          /\ event.key = "K_a" /\ ui.active = "output" => Len(ui.text_output) < MaxText
          /\ LET u == [ui EXCEPT !.event = event]
                 ui_in == [u EXCEPT !.input_valid = TRUE]
                 ui_out == [u EXCEPT !.output_valid = TRUE]
             IN  ui' = CASE u.active = "input" /\ event.key \in {"K_RETURN", "K_TAB"} ->
                                [ui_in EXCEPT !.active = "output"]
                         [] u.active = "input" /\ event.key = "K_BACKSPACE" ->
                                [ui_in EXCEPT !.text_input = DropLast(u.text_input)]
                         [] u.active = "input" /\ event.key = "K_a" ->
                                [ui_in EXCEPT !.text_input = Append(u.text_input, "a")]
                         [] u.active = "output" /\ event.key = "K_RETURN" ->
                                Confirmation(ui_out, EnterPath(u.text_input), EnterPath(u.text_output))
                         [] u.active = "output" /\ event.key = "K_TAB" ->
                                [ui_out EXCEPT !.active = "input"]
                         [] u.active = "output" /\ event.key = "K_BACKSPACE" ->
                                [ui_out EXCEPT !.text_output = DropLast(u.text_output)]
                         [] u.active = "output" /\ event.key = "K_a" ->
                                [ui_out EXCEPT !.text_output = Append(u.text_output, "a")]
                         [] OTHER -> u
    /\ UNCHANGED pc
    /\ UNCHANGED uiRest

\* the batch is exhausted: the window is drawn and the loop condition is
\* evaluated again
Draw ==
    /\ pc = "for"
    /\ pc' = "while"
    /\ UNCHANGED ui
    /\ UNCHANGED uiRest

\* `while not done` fails: pygame.quit(); return input_file, output_file
ReturnFiles ==
    /\ pc = "while"
    /\ ui.done
    /\ ui' = [ui EXCEPT !.result = <<ui.input_file, ui.output_file>>]
    /\ pc' = "returned"
    /\ UNCHANGED uiRest

NextUI ==
    \/ GetEvents
    \/ HandleQuit
    \/ HandleMouseButtonDown
    \/ HandleKeyDown
    \/ Draw
    \/ ReturnFiles

SpecUI == InitUI /\ [][NextUI]_vars

Returned == script = "ask_names_of_files_ui" /\ pc = "returned"

\* the last event handled was a confirmation
LastWasConfirmation ==
    \/ ui.event.type = "MOUSEBUTTONDOWN" /\ ui.event.pos = "confirm_button"
    \/ ui.event.type = "KEYDOWN" /\ ui.event.key = "K_RETURN"

\* C30: a pair of paths is returned only directly after a confirmation, the
\* returned input path exists, the returned output path does not and so
\* differs from the input path; a window-close event returns (None, None).
C30_ReturnsValidatedPair ==
    Returned =>
        IF ui.event.type = "QUIT"
        THEN ui.result = <<None, None>>
        ELSE /\ ui.result[1] # None
             /\ ui.result[2] # None
             /\ LastWasConfirmation
             /\ isfile(ui.result[1])
             /\ ~isfile(ui.result[2])
             /\ ui.result[1] # ui.result[2]

=============================================================================
